---- MODULE Spec2Model ----
(***************************************************************************)
(* Model of scripts/launch_codex_agents.py: main runs three phases in      *)
(* sequence; run_phase submits one run_agent task per prompt to a thread   *)
(* pool of that size and collects the futures as they complete; run_agent  *)
(* runs one external process under a deadline and writes one report.       *)
(***************************************************************************)
EXTENDS Integers, Sequences, FiniteSets, TLC

(* ------------------------------ bounds --------------------------------- *)
\* The model runs the first MaxImplementation prompts of the first phase (of
\* its 8) and the first prompt of each later phase (of their 6 and 4).
MaxImplementation == 2
\* The clock counts ticks from 0 to MaxClock, TicksPerSecond of them a second.
MaxClock == 1
TicksPerSecond == 2

(* ----------------------------- the catalog ----------------------------- *)
Min(a, b) == IF a < b THEN a ELSE b

IMPLEMENTATION_PROMPTS ==
    << "Implementer A01", "Implementer A02", "Implementer A03", "Implementer A04",
       "Implementer A05", "Implementer A06", "Implementer A07", "Implementer A08" >>

BUGFIX_PROMPTS ==
    << "Bugfix B01", "Bugfix B02", "Bugfix B03", "Bugfix B04", "Bugfix B05", "Bugfix B06" >>

DOC_PROMPTS ==
    << "Docs C01", "Docs C02", "Docs C03", "Docs C04" >>

\* main's three calls of run_phase, in order: the name and the prompts.
PhaseName == << "implementation", "bugfix", "docs" >>

PhasePrompts ==
    << SubSeq(IMPLEMENTATION_PROMPTS, 1, Min(MaxImplementation, Len(IMPLEMENTATION_PROMPTS))),
       SubSeq(BUGFIX_PROMPTS, 1, 1),
       SubSeq(DOC_PROMPTS, 1, 1) >>

NumPhases == Len(PhaseName)

\* A job is <<p, i>>: the i-th prompt (1-based, the idx of run_agent) of phase p.
JobsOf(p) == { <<p, i>> : i \in 1..Len(PhasePrompts[p]) }

Jobs == UNION { JobsOf(p) : p \in 1..NumPhases }

(* ------------------------------- text ---------------------------------- *)
\* Text is a sequence of characters; bytes are characters plus the byte
\* "xFF", which is not valid UTF-8.
NoneVal == "None"

Whitespace == { " ", "\n", "\t" }

\* bytes.decode("utf-8", errors="replace")
Decode(bytes) == [ k \in DOMAIN bytes |-> IF bytes[k] = "xFF" THEN "uFFFD" ELSE bytes[k] ]

\* (x or b""): None and the empty bytes both give the empty bytes
OrEmpty(b) == IF b = NoneVal THEN << >> ELSE b

\* str.strip(): drop leading and trailing whitespace
RECURSIVE LStrip(_)
LStrip(s) == IF s # << >> /\ Head(s) \in Whitespace THEN LStrip(Tail(s)) ELSE s

RECURSIVE RStrip(_)
RStrip(s) ==
    IF s # << >> /\ s[Len(s)] \in Whitespace THEN RStrip(SubSeq(s, 1, Len(s) - 1)) ELSE s

Strip(s) == RStrip(LStrip(s))

DigitChar == << "0", "1", "2", "3", "4", "5", "6", "7", "8", "9" >>

\* str(n) for n >= 0
RECURSIVE IntStr(_)
IntStr(n) == IF n < 10 THEN << DigitChar[n + 1] >>
             ELSE IntStr(n \div 10) \o << DigitChar[(n % 10) + 1] >>

\* f"{n:02d}" for n >= 0: zero-padded to at least two digits
Fmt02d(n) == IF n < 10 THEN << "0" >> \o IntStr(n) ELSE IntStr(n)

\* "\n".join(lines)
RECURSIVE Join(_)
Join(lines) ==
    IF lines = << >> THEN << >>
    ELSE IF Len(lines) = 1 THEN lines[1]
    ELSE lines[1] \o << "\n" >> \o Join(Tail(lines))

(* --------------------------- run_agent, pure --------------------------- *)
TIMEOUT_EXIT == 124

TIMEOUT_MARK == << "\n", "TIMEOUT" >>

\* datetime.now().strftime("%Y%m%d_%H%M%S") at tick t of the clock: the time
\* cut to whole seconds. The model's runs stay within one hour of one day, so
\* the date and hour fields are one constant.
Stamp(t) ==
    LET secs == t \div TicksPerSecond
    IN  << "YYYYmmdd_HH" >> \o Fmt02d((secs \div 60) % 60) \o Fmt02d(secs % 60)

\* OutFile with the index left out of the name.
OutFile_NoIdx(phase, idx, stamp) ==
    << "docs/agent_runs/", phase, "_" >> \o stamp \o << ".md" >>

\* OUT_DIR / f"{phase}_{idx:02d}_{stamp}.md"
OutFile(phase, idx, stamp) ==
    << "docs/agent_runs/", phase, "_" >> \o Fmt02d(idx) \o << "_" >> \o stamp \o << ".md" >>

\* The line of three backquotes that opens and closes a block of the report.
FENCE == "[three backquotes]"

\* Body with the heading counting from zero.
Body_ZeroBased(phase, idx, prompt, exit_code, stdout, stderr) ==
    Join(<< << "# ", phase, " Agent " >> \o Fmt02d(idx - 1),
            << >>,
            << "- Prompt: ", prompt >>,
            << "- Exit code: " >> \o IntStr(exit_code),
            << >>,
            << "## Stdout" >>,
            << FENCE >>,
            Strip(stdout),
            << FENCE >>,
            << >>,
            << "## Stderr" >>,
            << FENCE >>,
            Strip(stderr),
            << FENCE >>,
            << >> >>)

\* "\n".join(body), the text written to out_file
Body(phase, idx, prompt, exit_code, stdout, stderr) ==
    Join(<< << "# ", phase, " Agent " >> \o Fmt02d(idx),
            << >>,
            << "- Prompt: ", prompt >>,
            << "- Exit code: " >> \o IntStr(exit_code),
            << >>,
            << "## Stdout" >>,
            << FENCE >>,
            Strip(stdout),
            << FENCE >>,
            << >>,
            << "## Stderr" >>,
            << FENCE >>,
            Strip(stderr),
            << FENCE >>,
            << >> >>)

(* ------------------------ the external process ------------------------- *)
\* What a process that exits on its own hands back: any exit code, any bytes.
ProcResults ==
    { [returncode |-> 0,   stdout |-> << "o", "k", "\n" >>, stderr |-> << >>],
      [returncode |-> 1,   stdout |-> << >>,               stderr |-> << " ", "e", "xFF" >>],
      [returncode |-> 124, stdout |-> << "o" >>,           stderr |-> << "e", "\n" >>] }

\* What TimeoutExpired carries after the kill: the partial output, or None
\* where nothing was read.
TimeoutCaptures ==
    { [stdout |-> NoneVal, stderr |-> << "e", "\n" >>] }

NoResult == [exit_code |-> -1, stdout |-> << >>, stderr |-> << >>]

\* No report is being looked at on its own.
NoReport == [pc |-> "none"]

(* ------------------------------- state --------------------------------- *)
VARIABLES
    now,          \* the clock, in ticks
    mainPc,       \* where main is
    phase,        \* the phase main is running (1..NumPhases)
    nextSubmit,   \* run_phase: index of the next prompt to submit
    st,           \* per job: where its task is
    stamp,        \* per job: run_agent's stamp
    proc,         \* per job: its external process
    how,          \* per job: how the wait on the process ended
    local,        \* per job: run_agent's exit_code, stdout, stderr
    waiter,       \* as_completed: TRUE once its waiter is installed
    finished,     \* as_completed: futures found finished at that moment, not yet yielded
    waiterQ,      \* as_completed: futures finished since, in finishing order
    results,      \* run_phase's results
    all_results,  \* main's all_results
    files,        \* OUT_DIR: path -> text
    log,          \* lines printed
    exc,          \* per job: the exception its task ended with, if any
    phase_results, \* what each call of run_phase returned to main, in call order
    runs,          \* executions of the program side by side: start tick and stamps
    finishSeq,     \* the jobs whose result main has not taken yet, in the order they returned
    rt             \* one report on its own: what run_agent holds at line 66, and the text

vars == << now, mainPc, phase, nextSubmit, st, stamp, proc, how, local,
           waiter, finished, waiterQ, results, all_results, files, log, exc, phase_results,
           runs, finishSeq, rt >>

mainVars == << mainPc, phase, nextSubmit, waiter, finished, results, all_results, log,
               phase_results >>

\* The state of one execution of main with its pool, its tasks and its output.
runVars == << mainPc, phase, nextSubmit, st, stamp, proc, how, local, waiter, finished,
              waiterQ, results, all_results, files, log, exc, phase_results,
              finishSeq >>

\* Two executions of the program that share the clock and OUT_DIR.
Runs == { "first", "second" }

NotStarted == -1

Prompt(j) == PhasePrompts[j[1]][j[2]]

out_file(j) == OutFile(PhaseName[j[1]], j[2], stamp[j])

FutureDone(j) == st[j] \in { "returned", "raised" }

InitProgram ==
    /\ now = 0
    /\ mainPc = "begin"
    /\ phase = 1
    /\ nextSubmit = 1
    /\ st = [ j \in Jobs |-> "unsubmitted" ]
    /\ stamp = [ j \in Jobs |-> << >> ]
    /\ proc = [ j \in Jobs |-> "none" ]
    /\ how = [ j \in Jobs |-> "none" ]
    /\ local = [ j \in Jobs |-> NoResult ]
    /\ waiter = FALSE
    /\ finished = { }
    /\ waiterQ = << >>
    /\ results = << >>
    /\ all_results = << >>
    /\ files = << >>
    /\ log = << >>
    /\ exc = [ j \in Jobs |-> "none" ]
    /\ phase_results = << >>
    /\ runs = [ r \in Runs |-> [start |-> NotStarted, stamps |-> [ j \in Jobs |-> << >> ]] ]
    /\ finishSeq = << >>

\* The state after construction: nothing has run, no report is looked at.
Init == InitProgram /\ rt = NoReport

(* ------------------------------ the clock ------------------------------ *)
\* The only reading of the clock is run_agent's datetime.now(): the time that
\* has passed since the previous reading is an input of that step. The clock
\* is what the stamps are read from and nothing else: the deadline of a
\* process is a step of its own (DeadlineElapses), not a count of ticks.
ClockReadings == now..MaxClock

(* ------------------------------ run_agent ------------------------------ *)
\* StartAgent in a pool of one worker: a job starts only when no sibling is running.
StartAgent_OneWorker(j) ==
    /\ st[j] = "submitted"
    /\ \A k \in JobsOf(j[1]) : st[k] \notin { "waiting", "captured" }
    /\ \E t \in ClockReadings : now' = t /\ stamp' = [stamp EXCEPT ![j] = Stamp(t)]
    /\ st' = [st EXCEPT ![j] = "waiting"]
    /\ proc' = [proc EXCEPT ![j] = "running"]
    /\ UNCHANGED << how, local, waiterQ, files, exc >>
    /\ UNCHANGED << mainVars, runs, finishSeq, rt >>

\* Lines 42-58: take the stamp, start the process.
StartAgent(j) ==
    /\ st[j] = "submitted"
    /\ \E t \in ClockReadings : now' = t /\ stamp' = [stamp EXCEPT ![j] = Stamp(t)]
    /\ st' = [st EXCEPT ![j] = "waiting"]
    /\ proc' = [proc EXCEPT ![j] = "running"]
    /\ UNCHANGED << how, local, waiterQ, files, exc >>
    /\ UNCHANGED << mainVars, runs, finishSeq, rt >>

\* A future that finishes notifies the waiter, when one is installed.
Notify(j) == IF waiter THEN waiterQ' = Append(waiterQ, j) ELSE UNCHANGED waiterQ

\* Lines 42-58 when Popen raises (FileNotFoundError, OSError): nothing
\* catches it, the task ends with the exception.
StartFails(j) ==
    /\ st[j] = "submitted"
    /\ \E t \in ClockReadings : now' = t /\ stamp' = [stamp EXCEPT ![j] = Stamp(t)]
    /\ st' = [st EXCEPT ![j] = "raised"]
    /\ exc' = [exc EXCEPT ![j] = "OSError in Popen"]
    /\ Notify(j)
    /\ UNCHANGED << proc, how, local, files >>
    /\ UNCHANGED << mainVars, runs, finishSeq, rt >>

\* ProcessExits where a non-zero exit also kills the siblings still running.
ProcessExits_CancelsSiblings(j) ==
    /\ st[j] = "waiting"
    /\ \E r \in ProcResults :
          /\ local' = [local EXCEPT ![j] = [exit_code |-> r.returncode,
                                            stdout |-> Decode(OrEmpty(r.stdout)),
                                            stderr |-> Decode(OrEmpty(r.stderr))]]
          /\ proc' = [ i \in Jobs |->
                         IF i = j THEN "exited"
                         ELSE IF r.returncode # 0 /\ i[1] = j[1] /\ proc[i] = "running"
                              THEN "killed" ELSE proc[i] ]
    /\ how' = [how EXCEPT ![j] = "exit"]
    /\ st' = [st EXCEPT ![j] = "captured"]
    /\ UNCHANGED << now, stamp, waiterQ, files, exc >>
    /\ UNCHANGED << mainVars, runs, finishSeq, rt >>

\* ProcessExits where a non-zero exit sends the task back to start the process
\* again.
ProcessExits_Retry(j) ==
    /\ st[j] = "waiting"
    /\ \E r \in ProcResults :
          /\ local' = [local EXCEPT ![j] = [exit_code |-> r.returncode,
                                            stdout |-> Decode(OrEmpty(r.stdout)),
                                            stderr |-> Decode(OrEmpty(r.stderr))]]
          /\ st' = [st EXCEPT ![j] = IF r.returncode # 0 /\ how[j] = "none"
                                      THEN "submitted" ELSE "captured"]
    /\ proc' = [proc EXCEPT ![j] = "exited"]
    /\ how' = [how EXCEPT ![j] = "exit"]
    /\ UNCHANGED << now, stamp, waiterQ, files, exc >>
    /\ UNCHANGED << mainVars, runs, finishSeq, rt >>

\* Lines 59-61: the process exits before the deadline.
ProcessExits(j) ==
    /\ st[j] = "waiting"
    /\ \E r \in ProcResults :
          local' = [local EXCEPT ![j] = [exit_code |-> r.returncode,
                                         stdout |-> Decode(OrEmpty(r.stdout)),
                                         stderr |-> Decode(OrEmpty(r.stderr))]]
    /\ proc' = [proc EXCEPT ![j] = "exited"]
    /\ how' = [how EXCEPT ![j] = "exit"]
    /\ st' = [st EXCEPT ![j] = "captured"]
    /\ UNCHANGED << now, stamp, waiterQ, files, exc >>
    /\ UNCHANGED << mainVars, runs, finishSeq, rt >>

\* DeadlineElapses where the process is left running.
DeadlineElapses_NoKill(j) ==
    /\ st[j] = "waiting"
    /\ \E c \in TimeoutCaptures :
          local' = [local EXCEPT ![j] = [exit_code |-> TIMEOUT_EXIT,
                                         stdout |-> Decode(OrEmpty(c.stdout)),
                                         stderr |-> Decode(OrEmpty(c.stderr)) \o TIMEOUT_MARK]]
    /\ how' = [how EXCEPT ![j] = "timeout"]
    /\ st' = [st EXCEPT ![j] = "captured"]
    /\ UNCHANGED << now, stamp, proc, waiterQ, files, exc >>
    /\ UNCHANGED << mainVars, runs, finishSeq, rt >>

\* DeadlineElapses where TimeoutExpired is not caught and ends the task.
DeadlineElapses_Reraise(j) ==
    /\ st[j] = "waiting"
    /\ proc' = [proc EXCEPT ![j] = "killed"]
    /\ how' = [how EXCEPT ![j] = "timeout"]
    /\ st' = [st EXCEPT ![j] = "raised"]
    /\ exc' = [exc EXCEPT ![j] = "TimeoutExpired"]
    /\ Notify(j)
    /\ UNCHANGED << now, stamp, local, files >>
    /\ UNCHANGED << mainVars, runs, finishSeq, rt >>

\* Lines 62-65: the deadline (timeout=120) elapses first; subprocess.run kills
\* the process, waits for it and raises TimeoutExpired with what was read.
DeadlineElapses(j) ==
    /\ st[j] = "waiting"
    /\ \E c \in TimeoutCaptures :
          local' = [local EXCEPT ![j] = [exit_code |-> TIMEOUT_EXIT,
                                         stdout |-> Decode(OrEmpty(c.stdout)),
                                         stderr |-> Decode(OrEmpty(c.stderr)) \o TIMEOUT_MARK]]
    /\ proc' = [proc EXCEPT ![j] = "killed"]
    /\ how' = [how EXCEPT ![j] = "timeout"]
    /\ st' = [st EXCEPT ![j] = "captured"]
    /\ UNCHANGED << now, stamp, waiterQ, files, exc >>
    /\ UNCHANGED << mainVars, runs, finishSeq, rt >>

\* Path.write_text: creates the file or replaces its text.
WriteText(fs, path, text) ==
    [ q \in (DOMAIN fs) \cup { path } |-> IF q = path THEN text ELSE fs[q] ]

\* WriteReport where the result is returned and the file is not written.
WriteReport_ReturnsFirst(j) ==
    /\ st[j] = "captured"
    /\ st' = [st EXCEPT ![j] = "returned"]
    /\ Notify(j)
    /\ UNCHANGED << now, stamp, proc, how, local, exc, files >>
    /\ finishSeq' = Append(finishSeq, j)
    /\ UNCHANGED << mainVars, runs, rt >>

\* Lines 66-84: build the body, write the file, return (path, exit_code).
WriteReport(j) ==
    /\ st[j] = "captured"
    /\ files' = WriteText(files, out_file(j),
                           Body(PhaseName[j[1]], j[2], Prompt(j),
                                local[j].exit_code, local[j].stdout, local[j].stderr))
    /\ st' = [st EXCEPT ![j] = "returned"]
    /\ Notify(j)
    /\ UNCHANGED << now, stamp, proc, how, local, exc >>
    /\ finishSeq' = Append(finishSeq, j)
    /\ UNCHANGED << mainVars, runs, rt >>

\* WriteFails where the error is swallowed and the result returned all the same.
WriteFails_Swallowed(j) ==
    /\ st[j] = "captured"
    /\ st' = [st EXCEPT ![j] = "returned"]
    /\ exc' = [exc EXCEPT ![j] = "OSError in write_text"]
    /\ Notify(j)
    /\ UNCHANGED << now, stamp, proc, how, local, files >>
    /\ finishSeq' = Append(finishSeq, j)
    /\ UNCHANGED << mainVars, runs, rt >>

\* Line 83 when write_text raises (OSError): the task ends with the exception.
WriteFails(j) ==
    /\ st[j] = "captured"
    /\ st' = [st EXCEPT ![j] = "raised"]
    /\ exc' = [exc EXCEPT ![j] = "OSError in write_text"]
    /\ Notify(j)
    /\ UNCHANGED << now, stamp, proc, how, local, files >>
    /\ UNCHANGED << mainVars, runs, finishSeq, rt >>

(* ------------------------------ run_phase ------------------------------ *)
\* Lines 88-90: print the phase line, results = [], open the pool.
BeginPhase ==
    /\ mainPc = "begin"
    /\ log' = Append(log, << "phase", PhaseName[phase], Len(PhasePrompts[phase]) >>)
    /\ results' = << >>
    /\ nextSubmit' = 1
    /\ waiter' = FALSE
    /\ finished' = { }
    /\ waiterQ' = << >>
    /\ mainPc' = "submit"
    /\ UNCHANGED << now, phase, st, stamp, proc, how, local, all_results, files, exc,
                    phase_results, runs, finishSeq, rt >>

\* Line 91: ex.submit for the next prompt; the pool has a worker for every
\* prompt (max_workers=len(prompts)), so the task is handed to a thread at once.
Submit ==
    /\ mainPc = "submit"
    /\ st' = [st EXCEPT ![<< phase, nextSubmit >>] = "submitted"]
    /\ nextSubmit' = nextSubmit + 1
    /\ mainPc' = IF nextSubmit = Len(PhasePrompts[phase]) THEN "as_completed" ELSE "submit"
    /\ UNCHANGED << now, phase, stamp, proc, how, local, waiter, finished, waiterQ,
                    results, all_results, files, log, exc, phase_results, runs, finishSeq, rt >>

\* Line 92, first step of as_completed: the futures already finished are set
\* aside (a set: they are yielded in no particular order) and a waiter is
\* installed on the others.
AsCompleted ==
    /\ mainPc = "as_completed"
    /\ finished' = { j \in JobsOf(phase) : FutureDone(j) }
    /\ waiter' = TRUE
    /\ mainPc' = "collect"
    /\ UNCHANGED << now, phase, nextSubmit, st, stamp, proc, how, local, waiterQ,
                    results, all_results, files, log, exc, phase_results, runs, finishSeq, rt >>

\* The future as_completed yields next.
Yields(j) ==
    \/ j \in finished
    \/ finished = { } /\ waiterQ # << >> /\ j = Head(waiterQ)

Yielded(j) ==
    /\ finished' = finished \ { j }
    /\ waiterQ' = IF j \in finished THEN waiterQ ELSE Tail(waiterQ)

\* Collect where a result with a non-zero exit code is not appended.
Collect_DropsFailed(j) ==
    /\ mainPc = "collect"
    /\ Yields(j)
    /\ st[j] = "returned"
    /\ Yielded(j)
    /\ log' = Append(log, << "completed", PhaseName[phase], local[j].exit_code, out_file(j) >>)
    /\ results' = IF local[j].exit_code = 0
                  THEN Append(results, << out_file(j), local[j].exit_code >>)
                  ELSE results
    /\ st' = [st EXCEPT ![j] = "collected"]
    /\ finishSeq' = SelectSeq(finishSeq, LAMBDA k : k # j)
    /\ UNCHANGED << now, mainPc, phase, nextSubmit, stamp, proc, how, local, waiter,
                    all_results, files, exc, phase_results, runs, rt >>

\* Collect where the completion line is not printed.
Collect_NoEvent(j) ==
    /\ mainPc = "collect"
    /\ Yields(j)
    /\ st[j] = "returned"
    /\ Yielded(j)
    /\ results' = Append(results, << out_file(j), local[j].exit_code >>)
    /\ st' = [st EXCEPT ![j] = "collected"]
    /\ finishSeq' = SelectSeq(finishSeq, LAMBDA k : k # j)
    /\ UNCHANGED << now, mainPc, phase, nextSubmit, stamp, proc, how, local, waiter,
                    all_results, files, log, exc, phase_results, runs, rt >>

\* Lines 92-95 for a future that holds a result.
Collect(j) ==
    /\ mainPc = "collect"
    /\ Yields(j)
    /\ st[j] = "returned"
    /\ Yielded(j)
    /\ log' = Append(log, << "completed", PhaseName[phase], local[j].exit_code, out_file(j) >>)
    /\ results' = Append(results, << out_file(j), local[j].exit_code >>)
    /\ st' = [st EXCEPT ![j] = "collected"]
    /\ finishSeq' = SelectSeq(finishSeq, LAMBDA k : k # j)
    /\ UNCHANGED << now, mainPc, phase, nextSubmit, stamp, proc, how, local, waiter,
                    all_results, files, exc, phase_results, runs, rt >>

\* Line 93 for a future that holds an exception: fut.result() raises it, the
\* loop is left and the with block starts to unwind.
CollectRaises(j) ==
    /\ mainPc = "collect"
    /\ Yields(j)
    /\ st[j] = "raised"
    /\ Yielded(j)
    /\ mainPc' = "unwinding"
    /\ UNCHANGED << now, phase, nextSubmit, st, stamp, proc, how, local, waiter,
                    results, all_results, files, log, exc, phase_results, runs, finishSeq, rt >>

\* Unwind that does not wait for the tasks still running.
Unwind_NoWait ==
    /\ mainPc = "unwinding"
    /\ mainPc' = "aborted"
    /\ UNCHANGED << now, phase, nextSubmit, st, stamp, proc, how, local, waiter, finished,
                    waiterQ, results, all_results, files, log, exc, phase_results, runs, finishSeq, rt >>

\* Line 90, the with block left by an exception: shutdown(wait=True) joins
\* every worker, then the exception reaches main, which does not catch it.
Unwind ==
    /\ mainPc = "unwinding"
    /\ \A j \in JobsOf(phase) : st[j] \in { "returned", "raised", "collected" }
    /\ mainPc' = "aborted"
    /\ UNCHANGED << now, phase, nextSubmit, st, stamp, proc, how, local, waiter, finished,
                    waiterQ, results, all_results, files, log, exc, phase_results, runs, finishSeq, rt >>

(* -------------------------------- main --------------------------------- *)
\* ReturnPhase where run_phase returns after the first result.
ReturnPhase_Early ==
    /\ mainPc = "collect"
    /\ \E j \in JobsOf(phase) : st[j] = "collected"
    /\ all_results' = all_results \o results
    /\ phase_results' = Append(phase_results, results)
    /\ IF phase < NumPhases
       THEN phase' = phase + 1 /\ mainPc' = "begin"
       ELSE phase' = phase /\ mainPc' = "tally"
    /\ UNCHANGED << now, nextSubmit, st, stamp, proc, how, local, waiter, finished,
                    waiterQ, results, files, log, exc, runs, finishSeq, rt >>

\* Lines 96 and 101-103: as_completed is exhausted, run_phase returns results
\* and main extends all_results with them.
ReturnPhase ==
    /\ mainPc = "collect"
    /\ \A j \in JobsOf(phase) : st[j] = "collected"
    /\ all_results' = all_results \o results
    /\ phase_results' = Append(phase_results, results)
    /\ IF phase < NumPhases
       THEN phase' = phase + 1 /\ mainPc' = "begin"
       ELSE phase' = phase /\ mainPc' = "tally"
    /\ UNCHANGED << now, nextSubmit, st, stamp, proc, how, local, waiter, finished,
                    waiterQ, results, files, log, exc, runs, finishSeq, rt >>

\* CountOk where every code but the timeout's counts as a success.
CountOk_NotTimeout(rs) == Cardinality({ k \in DOMAIN rs : rs[k][2] # TIMEOUT_EXIT })

\* Line 105
CountOk(rs) == Cardinality({ k \in DOMAIN rs : rs[k][2] = 0 })

\* Lines 105-106
Tally ==
    /\ mainPc = "tally"
    /\ log' = Append(log, << "summary", CountOk(all_results), Len(all_results) >>)
    /\ mainPc' = "done"
    /\ UNCHANGED << now, phase, nextSubmit, st, stamp, proc, how, local, waiter, finished,
                    waiterQ, results, all_results, files, exc, phase_results, runs, finishSeq, rt >>

Next ==
    \/ BeginPhase
    \/ Submit
    \/ AsCompleted
    \/ \E j \in Jobs : StartAgent(j)
    \/ \E j \in Jobs : StartFails(j)
    \/ \E j \in Jobs : ProcessExits(j)
    \/ \E j \in Jobs : DeadlineElapses(j)
    \/ \E j \in Jobs : WriteReport(j)
    \/ \E j \in Jobs : WriteFails(j)
    \/ \E j \in Jobs : Collect(j)
    \/ \E j \in Jobs : CollectRaises(j)
    \/ Unwind
    \/ ReturnPhase
    \/ Tally

Spec == Init /\ [][Next]_vars

(* --------------------- two executions side by side --------------------- *)
\* Lines 109-110: the program is started, at some tick of the clock.
MainStarts(r) ==
    /\ runs[r].start = NotStarted
    /\ \E t \in ClockReadings :
          /\ now' = t
          /\ runs' = [runs EXCEPT ![r].start = t]
    /\ UNCHANGED << runVars, rt >>

\* Lines 41-84 as far as the file name goes: run_agent of execution r takes
\* its stamp for job j and writes out_file. main runs the phases in order, so
\* the jobs of the phases before j's have written theirs.
AgentReports(r, j) ==
    /\ runs[r].start # NotStarted
    /\ runs[r].stamps[j] = << >>
    /\ \A i \in Jobs : i[1] < j[1] => runs[r].stamps[i] # << >>
    /\ \E t \in ClockReadings :
          /\ now' = t
          /\ runs' = [runs EXCEPT ![r].stamps[j] = Stamp(t)]
    /\ UNCHANGED << runVars, rt >>

\* The paths execution r has written.
PathsOf(r) ==
    { OutFile(PhaseName[j[1]], j[2], runs[r].stamps[j]) :
        j \in { i \in Jobs : runs[r].stamps[i] # << >> } }

NextRuns ==
    \/ \E r \in Runs : MainStarts(r)
    \/ \E r \in Runs, j \in Jobs : AgentReports(r, j)

SpecRuns == Init /\ [][NextRuns]_vars

\* While some thread can take a step, a step is taken: the threads are OS
\* threads, and every process that runs either exits or meets its deadline.
\* No step of the model can be undone, so this is all the fairness needed.
Fairness == WF_vars(Next)

FairSpec == Spec /\ Fairness

(* ------------------------ one report on its own ------------------------ *)
\* What separates the end of stdout from the start of stderr in the text of a
\* report: lines 74-77 of the body, joined.
BLOCK_GAP == << "\n", FENCE, "\n", "\n", "## Stderr", "\n", FENCE, "\n" >>

\* Decoded texts that run_agent can hold at line 66: empty, not ASCII, with
\* white space before and after, of several lines, a line of three
\* backquotes, and output that quotes the layout of a report.
ReportTexts ==
    { << >>,
      << "u00E9" >>,
      << " ", "a" >>,
      << "a", "\n" >>,
      << "a", "\n", "b" >>,
      << FENCE >>,
      << "a" >> \o BLOCK_GAP \o << "b" >>,
      << "b" >> \o BLOCK_GAP \o << "c" >>,
      << "c" >> }

ReportCodes == { 0, 1, TIMEOUT_EXIT }

\* What run_agent holds at line 66 for a job of the first phase.
ReportInputs ==
    { [pc |-> "input", phase |-> PhaseName[j[1]], idx |-> j[2], prompt |-> Prompt(j),
       exit_code |-> c, stdout |-> o, stderr |-> e] :
          j \in JobsOf(1), c \in ReportCodes, o \in ReportTexts, e \in ReportTexts }

InitReport == InitProgram /\ rt \in ReportInputs

\* Lines 66-83: the text that run_agent writes for what it holds.
WriteArtifact ==
    /\ rt.pc = "input"
    /\ rt' = [pc |-> "written", phase |-> rt.phase, idx |-> rt.idx, prompt |-> rt.prompt,
              exit_code |-> rt.exit_code, stdout |-> rt.stdout, stderr |-> rt.stderr,
              text |-> Body(rt.phase, rt.idx, rt.prompt, rt.exit_code, rt.stdout, rt.stderr)]
    /\ UNCHANGED << now, runVars, runs >>

\* A reading of the text: any (payload, exit code, stdout, stderr) that lines
\* 66-83 turn into this very text. A reader of the report can tell no two of
\* them apart.
ReadArtifact ==
    /\ rt.pc = "written"
    /\ \E i \in ReportInputs :
          /\ Body(i.phase, i.idx, i.prompt, i.exit_code, i.stdout, i.stderr) = rt.text
          /\ rt' = [pc |-> "read", phase |-> rt.phase, idx |-> rt.idx, prompt |-> rt.prompt,
                    exit_code |-> rt.exit_code, stdout |-> rt.stdout, stderr |-> rt.stderr,
                    text |-> rt.text,
                    read |-> [prompt |-> i.prompt, exit_code |-> i.exit_code,
                              stdout |-> i.stdout, stderr |-> i.stderr]]
    /\ UNCHANGED << now, runVars, runs >>

NextReport ==
    \/ WriteArtifact
    \/ ReadArtifact

SpecReport == InitReport /\ [][NextReport]_vars

(* ------------------------------ properties ----------------------------- *)
HasResult(j) == st[j] \in { "returned", "collected" }

\* The (path, exit_code) that run_agent returns for job j.
ResultOf(j) == << out_file(j), local[j].exit_code >>

EndsWith(s, suffix) ==
    /\ Len(s) >= Len(suffix)
    /\ SubSeq(s, Len(s) - Len(suffix) + 1, Len(s)) = suffix

\* The task of some job ended with an operating-system error.
Faulted == \E j \in Jobs : exc[j] \in { "OSError in Popen", "OSError in write_text" }

\* C1: every list that run_phase returned holds as many results as the phase
\* has prompts, and exactly one of them is the result of each job of the phase.
RunPhaseReturnsOnePerJob ==
    \A p \in 1..Len(phase_results) :
        LET rs == phase_results[p]
        IN  /\ Len(rs) = Len(PhasePrompts[p])
            /\ \A j \in JobsOf(p) :
                  Cardinality({ k \in DOMAIN rs : rs[k] = ResultOf(j) }) = 1

\* run_phase has returned for a phase in which one job timed out and the other
\* exited with code 1.
RunPhaseReturnedMixed ==
    /\ Len(phase_results) >= 1
    /\ how[<< 1, 1 >>] = "timeout"
    /\ how[<< 1, 2 >>] = "exit" /\ local[<< 1, 2 >>].exit_code = 1

\* C2: when a job of phase p+1 has been submitted, every job of phase p has
\* had its process end (exit or kill) and its result collected by run_phase.
PhasesNeverOverlap ==
    \A p \in 1..(NumPhases - 1) :
        \A j \in JobsOf(p + 1) :
            st[j] # "unsubmitted" =>
                \A i \in JobsOf(p) : st[i] = "collected" /\ proc[i] \in { "exited", "killed" }

\* A job of the second phase runs after a job of the first phase timed out.
SecondPhaseRunsAfterTimeout ==
    /\ proc[<< 2, 1 >>] = "running"
    /\ how[<< 1, 1 >>] = "timeout"

\* C3: a job whose process could not be started still has a result with a
\* non-zero exit code, and main is not aborted.
StartFailureBecomesResult ==
    \A j \in Jobs :
        exc[j] = "OSError in Popen" =>
            /\ st[j] # "raised"
            /\ HasResult(j) => local[j].exit_code # 0
            /\ mainPc \notin { "unwinding", "aborted" }

\* C4: a step that ends the process of a job ends it by that job's own exit or
\* by that job's own deadline and leaves every other job as it was; and main
\* leaves a phase by an exception only when a task ended with an error of the
\* operating system, never because of an exit code or a timeout.
SiblingsRunIndependently ==
    /\ [][ \A j \in Jobs :
              (proc[j] = "running" /\ proc'[j] # "running") =>
                  /\ \/ proc'[j] = "exited" /\ how'[j] = "exit"
                     \/ proc'[j] = "killed" /\ how'[j] = "timeout"
                  /\ \A i \in Jobs \ { j } :
                        proc'[i] = proc[i] /\ st'[i] = st[i] /\ how'[i] = how[i] ]_vars
    /\ [](mainPc \in { "unwinding", "aborted" } => Faulted)

\* After one job failed with code 1 its sibling ran to its own deadline, and a
\* job of the next phase runs.
FailedJobLeftOthersRunning ==
    /\ how[<< 1, 1 >>] = "exit" /\ local[<< 1, 1 >>].exit_code = 1
    /\ how[<< 1, 2 >>] = "timeout"
    /\ proc[<< 2, 1 >>] = "running"

\* C5: a job whose deadline elapsed first has exit code 124 and a stderr text
\* that ends with the timeout marker, in run_agent and in every result that
\* run_phase holds for it, and its process is killed, not running.
TimeoutYieldsSentinel ==
    \A j \in Jobs :
        how[j] = "timeout" =>
            /\ local[j].exit_code = TIMEOUT_EXIT
            /\ EndsWith(local[j].stderr, TIMEOUT_MARK)
            /\ EndsWith(Strip(local[j].stderr), << "TIMEOUT" >>)
            /\ proc[j] = "killed"
            /\ \A k \in DOMAIN results :
                  results[k][1] = out_file(j) => results[k][2] = TIMEOUT_EXIT

\* The result of a job that timed out has been collected.
TimedOutJobCollected ==
    \E j \in Jobs : how[j] = "timeout" /\ st[j] = "collected"

\* C6: a job has exit code 124 if and only if its deadline elapsed first.
SentinelOnlyOnTimeout ==
    \A j \in Jobs :
        how[j] # "none" => (local[j].exit_code = TIMEOUT_EXIT <=> how[j] = "timeout")

\* C7: the jobs of one run that have taken their stamp have as many distinct
\* paths as there are of them, and OUT_DIR holds one file for every job that
\* wrote its report.
ArtifactPathsUnique ==
    LET named == { j \in Jobs : stamp[j] # << >> }
    IN  /\ Cardinality({ out_file(j) : j \in named }) = Cardinality(named)
        /\ Cardinality(DOMAIN files) = Cardinality({ j \in Jobs : HasResult(j) })

\* Two jobs of one phase took the same stamp and both wrote, and so did a job
\* of the next phase.
SameStampSiblingsWrote ==
    /\ HasResult(<< 1, 1 >>) /\ HasResult(<< 1, 2 >>)
    /\ stamp[<< 1, 1 >>] = stamp[<< 1, 2 >>]
    /\ HasResult(<< 2, 1 >>)

\* C8: two executions of main that started at different times have written
\* no path in common.
RunsNeverCollide ==
    \A r1, r2 \in Runs :
        (/\ r1 # r2
         /\ runs[r1].start # NotStarted
         /\ runs[r2].start # NotStarted
         /\ runs[r1].start # runs[r2].start) => PathsOf(r1) \cap PathsOf(r2) = { }

\* C9: when main has printed the summary, it is the last line printed, its
\* success count is the number of jobs whose exit code is 0 and its total is
\* the number of prompts of the three phases.
TallyCountsZeroExits ==
    mainPc = "done" =>
        /\ log # << >>
        /\ log[Len(log)] = << "summary",
                              Cardinality({ j \in Jobs : local[j].exit_code = 0 }),
                              Len(PhasePrompts[1]) + Len(PhasePrompts[2]) + Len(PhasePrompts[3]) >>

\* main printed the summary of a run with a success, a code 1 and a timeout.
TallyOfMixedRun ==
    /\ mainPc = "done"
    /\ \E j \in Jobs : local[j].exit_code = 0
    /\ \E j \in Jobs : local[j].exit_code = 1
    /\ \E j \in Jobs : how[j] = "timeout"

\* How far main and the tasks have come: every step of Next adds to it.
PcRank ==
    [ begin |-> 0, submit |-> 1, as_completed |-> 2, collect |-> 3, unwinding |-> 4,
      aborted |-> 5, tally |-> 6, done |-> 7 ]

StRank ==
    [ unsubmitted |-> 0, submitted |-> 1, waiting |-> 2, captured |-> 3, returned |-> 4,
      raised |-> 4, collected |-> 5 ]

Progress ==
    8 * Len(phase_results) + PcRank[mainPc]
      + Cardinality({ << j, k >> \in Jobs \X (1..5) : k <= StRank[st[j]] })

\* C10: every step takes main or a task forward, so no run goes on for ever;
\* and a state in which no step is left is one in which main has printed the
\* summary and ended normally, unless the task of some job ended with an
\* error of the operating system. With Fairness, this is: main eventually
\* prints the summary, whatever exit codes and timeouts the jobs end in.
MainPrintsTally ==
    /\ [][Progress' > Progress]_vars
    /\ []( \/ ENABLED Next
           \/ Faulted
           \/ mainPc = "done" /\ log # << >> /\ log[Len(log)][1] = "summary" )

\* main ended normally although every job of the first phase failed: one by a
\* non-zero exit, the other by its deadline.
MainDoneAfterFailures ==
    /\ mainPc = "done"
    /\ local[<< 1, 1 >>].exit_code = 1
    /\ how[<< 1, 2 >>] = "timeout"
    /\ ~ Faulted

\* C11: a job whose report could not be written has no result: its task ended
\* with the error, no completion line and no entry of results or all_results
\* names its path, main does not reach the summary, and the only state in
\* which nothing more happens is the one where the error has aborted main.
WriteFailureIsFatal ==
    [](
        \A j \in Jobs :
            exc[j] = "OSError in write_text" =>
                /\ st[j] = "raised"
                /\ mainPc \notin { "tally", "done" }
                /\ \A k \in DOMAIN log : log[k][1] = "completed" => log[k][4] # out_file(j)
                /\ \A k \in DOMAIN results : results[k][1] # out_file(j)
                /\ \A k \in DOMAIN all_results : all_results[k][1] # out_file(j)
                /\ ENABLED Next \/ mainPc = "aborted")

\* main is aborted by the write error of the second job after the result of
\* the first was collected.
WriteFailureAbortedMain ==
    /\ mainPc = "aborted"
    /\ exc[<< 1, 2 >>] = "OSError in write_text"
    /\ st[<< 1, 1 >>] = "collected"

\* The positions in the log of the completion lines that name the path of j.
EventsOf(j) ==
    { k \in DOMAIN log : log[k][1] = "completed" /\ log[k][4] = out_file(j) }

\* The position in the log of the line that opens phase p (0 when not printed).
PhaseLine(p) ==
    LET ks == { k \in DOMAIN log : log[k][1] = "phase" /\ log[k][2] = PhaseName[p] }
    IN  IF ks = { } THEN 0 ELSE CHOOSE k \in ks : TRUE

\* C12: no job has more than one completion line; a completion line of a job
\* carries the name of its phase, its exit code and its path, and is printed
\* after the phase line of its phase and only once the job has finished and
\* its result is collected; and when run_phase has returned for a phase, every
\* job of the phase has its line, printed before the next phase line.
OneCompletionEventPerJob ==
    [](
        /\ \A j \in Jobs :
              /\ Cardinality(EventsOf(j)) <= 1
              /\ \A k \in EventsOf(j) :
                    /\ log[k] = << "completed", PhaseName[j[1]], local[j].exit_code, out_file(j) >>
                    /\ st[j] = "collected"
                    /\ PhaseLine(j[1]) # 0 /\ PhaseLine(j[1]) < k
                    /\ j[1] < NumPhases /\ PhaseLine(j[1] + 1) # 0 => k < PhaseLine(j[1] + 1)
        /\ \A p \in 1..Len(phase_results) :
              \A j \in JobsOf(p) : Cardinality(EventsOf(j)) = 1)

\* run_phase has returned for the first phase, with the line of a job that
\* exited with code 0 and the line of a job that timed out.
PhaseReturnedWithEvents ==
    /\ Len(phase_results) = 1
    /\ \E k \in EventsOf(<< 1, 1 >>) : log[k][3] = 0
    /\ \E k \in EventsOf(<< 1, 2 >>) : log[k][3] = TIMEOUT_EXIT /\ how[<< 1, 2 >>] = "timeout"

\* C13: run_agent takes its stamp once and starts one process for a job: a
\* process goes from none to running and from running to exited or killed, and
\* nowhere else; how the wait ended and the error a task ended with never
\* change once set; exit goes with exited and timeout with killed, never both;
\* and when run_phase has returned, the process of every job has ended.
NoJobIsRetried ==
    /\ [][ \A j \in Jobs :
              /\ proc'[j] # proc[j] =>
                    \/ proc[j] = "none" /\ proc'[j] = "running"
                    \/ proc[j] = "running" /\ proc'[j] \in { "exited", "killed" }
              /\ how[j] # "none" => how'[j] = how[j]
              /\ exc[j] # "none" => exc'[j] = exc[j]
              /\ stamp[j] # << >> => stamp'[j] = stamp[j] ]_vars
    /\ [](\A j \in Jobs :
              /\ how[j] = "exit" <=> proc[j] = "exited"
              /\ how[j] = "timeout" <=> proc[j] = "killed")
    /\ [](\A p \in 1..Len(phase_results) :
              \A j \in JobsOf(p) : proc[j] \in { "exited", "killed" })

\* main is done after one job failed with the code 124 of its own and another
\* timed out: neither was run again.
DoneAfterFailuresRunOnce ==
    /\ mainPc = "done"
    /\ how[<< 1, 1 >>] = "exit" /\ local[<< 1, 1 >>].exit_code = TIMEOUT_EXIT
    /\ how[<< 2, 1 >>] = "timeout"

\* C15: the pool has a worker for every job of the phase: submitting never
\* waits, every job of the phase is submitted when the submit loop is over,
\* and a submitted job can start its process in every state, whatever its
\* siblings are doing, one that runs until its deadline included.
NoCapOnTasks ==
    /\ mainPc = "submit" => ENABLED Submit
    /\ mainPc \in { "as_completed", "collect" } =>
          \A j \in JobsOf(phase) : st[j] # "unsubmitted"
    /\ \A j \in Jobs : st[j] = "submitted" => ENABLED StartAgent(j)

\* The processes of all the jobs of the first phase are running at once.
AllJobsRunningAtOnce ==
    /\ Len(PhasePrompts[1]) >= 2
    /\ \A j \in JobsOf(1) : proc[j] = "running"

\* The value of a sequence of decimal digits.
RECURSIVE ParseInt(_)
ParseInt(ds) ==
    IF ds = << >> THEN 0
    ELSE 10 * ParseInt(SubSeq(ds, 1, Len(ds) - 1))
         + ((CHOOSE n \in 1..10 : DigitChar[n] = ds[Len(ds)]) - 1)

\* The index that a path carries between the phase name and the stamp.
IndexInName(path) == ParseInt(SubSeq(path, 4, 5))

\* The phase, the index and the prompt that the text of a report carries in
\* its heading and in its prompt line.
PhaseInHeading(text) == text[2]

IndexInHeading(text) == ParseInt(SubSeq(text, 4, 5))

PromptInReport(text) == text[9]

\* The prompts of phase p as the source lists them.
Catalog(p) == << IMPLEMENTATION_PROMPTS, BUGFIX_PROMPTS, DOC_PROMPTS >>[p]

\* C17: the path of a job carries its 1-based position in the prompt list,
\* its report carries the same position in the heading, next to the name of
\* its phase, and the prompt at that position of the list, in whatever order
\* the jobs started and finished; and the results that run_phase returns for
\* K jobs carry the indices 1..K, each once.
ArtifactRecordsDeclaredIndex ==
    [](
        /\ \A j \in Jobs :
              /\ stamp[j] # << >> => IndexInName(out_file(j)) = j[2]
              /\ out_file(j) \in DOMAIN files =>
                    /\ PhaseInHeading(files[out_file(j)]) = PhaseName[j[1]]
                    /\ IndexInHeading(files[out_file(j)]) = j[2]
                    /\ PromptInReport(files[out_file(j)]) = Catalog(j[1])[j[2]]
        /\ \A p \in 1..Len(phase_results) :
              /\ Len(phase_results[p]) = Len(PhasePrompts[p])
              /\ { IndexInName(phase_results[p][k][1]) : k \in DOMAIN phase_results[p] }
                    = 1..Len(PhasePrompts[p]))

\* The report of the second job is written while the first job has not yet
\* started.
SecondJobWroteBeforeFirstStarted ==
    /\ out_file(<< 1, 2 >>) \in DOMAIN files
    /\ st[<< 1, 1 >>] = "submitted"

\* The paths that main holds: in results, in all_results and in the completion
\* lines printed.
PathsHeld ==
    { results[k][1] : k \in DOMAIN results }
        \cup { all_results[k][1] : k \in DOMAIN all_results }
        \cup { log[k][4] : k \in { i \in DOMAIN log : log[i][1] = "completed" } }

\* C18: the files change only in the step in which a job that captured its
\* output returns, and that step adds the one file of the job and touches no
\* other; a job that returned has its report on disk, with its body; there is
\* one file for each job that returned; and every path that main holds, at a
\* completion line and at the summary, is the path of a file written.
ArtifactWrittenBeforeResult ==
    /\ [][ files' # files =>
              \E j \in Jobs :
                  /\ st[j] = "captured" /\ st'[j] = "returned"
                  /\ out_file(j) \notin DOMAIN files
                  /\ DOMAIN files' = DOMAIN files \cup { out_file(j) }
                  /\ \A f \in DOMAIN files : files'[f] = files[f] ]_vars
    /\ [](\A j \in Jobs :
              st[j] \in { "returned", "collected" } =>
                  /\ out_file(j) \in DOMAIN files
                  /\ files[out_file(j)] = Body(PhaseName[j[1]], j[2], Prompt(j),
                                               local[j].exit_code, local[j].stdout,
                                               local[j].stderr))
    /\ [](Cardinality(DOMAIN files)
              = Cardinality({ j \in Jobs : st[j] \in { "returned", "collected" } }))
    /\ [](PathsHeld \subseteq DOMAIN files)

\* The summary is printed with one file written for every job, one of them
\* timed out and one exited.
SummaryWithAllArtifacts ==
    /\ log # << >> /\ log[Len(log)][1] = "summary"
    /\ Cardinality(DOMAIN files) = Cardinality(Jobs)
    /\ how[<< 1, 1 >>] = "timeout"
    /\ how[<< 1, 2 >>] = "exit"

\* C19: once a task has raised, main stays in the phase of that task: no job
\* of a later phase is submitted and no summary is printed; the error reaches
\* main only when every job of the phase has ended, none with a process still
\* running; and the run can stop only with main aborted.
ErrorWaitsForSiblingsThenAborts ==
    [](
        /\ \A j \in Jobs :
              exc[j] # "none" =>
                  /\ phase = j[1]
                  /\ \A k \in Jobs : k[1] > j[1] => st[k] = "unsubmitted" /\ proc[k] = "none"
                  /\ \A i \in DOMAIN log : log[i][1] # "summary"
                  /\ mainPc \notin { "tally", "done" }
                  /\ ENABLED Next \/ mainPc = "aborted"
        /\ mainPc = "aborted" =>
              /\ \E j \in JobsOf(phase) : exc[j] # "none"
              /\ \A j \in JobsOf(phase) :
                    /\ st[j] \in { "returned", "raised", "collected" }
                    /\ proc[j] # "running")

\* main is aborted by the start failure of the first job, after its sibling
\* ran until the deadline and wrote its report.
AbortedAfterSiblingTimedOut ==
    /\ mainPc = "aborted"
    /\ exc[<< 1, 1 >>] = "OSError in Popen"
    /\ how[<< 1, 2 >>] = "timeout"
    /\ out_file(<< 1, 2 >>) \in DOMAIN files

\* C14: what is read back from the text of a report is what run_agent held
\* when it wrote it: the payload, the exit code, and stdout and stderr as they
\* were, white space and lines of three backquotes included.
ReportRoundTrips ==
    rt.pc = "read" =>
        rt.read = [prompt |-> rt.prompt, exit_code |-> rt.exit_code,
                   stdout |-> rt.stdout, stderr |-> rt.stderr]

\* The phase that a path names.
PhaseOfPath(path) == CHOOSE p \in 1..NumPhases : PhaseName[p] = path[2]

\* C16: main takes the results of a phase in the order in which their tasks
\* returned: the result it takes is always the oldest one not yet taken; and
\* in all_results no result of a later phase comes before one of an earlier
\* phase.
ResultsOrderedByCompletion ==
    /\ [][ \A j \in Jobs :
              st[j] = "returned" /\ st'[j] = "collected" =>
                  finishSeq # << >> /\ j = Head(finishSeq) ]_vars
    /\ [](\A a, b \in DOMAIN all_results :
              a < b => PhaseOfPath(all_results[a][1]) <= PhaseOfPath(all_results[b][1]))

====
